---- MODULE Spec2Model ----
(***************************************************************************)
(* Model of club_stats.py: the chess.com club statistics script.           *)
(*                                                                         *)
(* The script is one top-level sequence of statements: fetch the roster,   *)
(* build and sort the member list, enrich every member from the profile    *)
(* endpoint, enrich every member from the stats endpoint, write the        *)
(* spreadsheet, and draw the chart.  Each blocking call and each loop      *)
(* iteration is one step of the state machine; pc is the position in the   *)
(* script.                                                                 *)
(*                                                                         *)
(* Values decoded by json.loads are tagged records (t is the Python type): *)
(*   int  -> n holds the number        str  -> s holds the code points     *)
(*   bool -> n is 1 for True, 0 for False          null -> None            *)
(*   arr  -> a holds the elements (a list)                                 *)
(*   obj  -> o maps each key to a value, k lists the keys in the order of  *)
(*           the document (a dict)                                         *)
(* JSON numbers with a fraction or an exponent (floats) are not held.      *)
(* A Python dict built by the script (a member) is a function from its     *)
(* keys to such values.  Strings are sequences of Unicode code points so   *)
(* that Python's str ordering can be computed.                             *)
(***************************************************************************)
EXTENDS Integers, Sequences, FiniteSets, TLC

VARIABLES
    pc,            \* position in the script
    club_members,  \* parsed roster response (line 36)
    members,       \* the list of member dicts (line 39)
    idx,           \* 1-based position of the running for-loop in members
    player_data,   \* last parsed profile/stats response (lines 76, 110)
    fetches,       \* every urlopen call issued so far, in order
    outstanding,   \* urlopen calls issued and not yet returned
    printed,       \* lines written to standard output
    report,        \* rows written to Club_Data.xlsx, or NoReport
    ratings,       \* the chart dict: username -> list of numbers (line 196)
    uncaught,      \* name of the exception that ended the run, or "none"
    exit_status    \* process exit status, Running while the script runs

vars == <<pc, club_members, members, idx, player_data, fetches, outstanding,
          printed, report, ratings, uncaught, exit_status>>

----------------------------------------------------------------------------
(* Bounds of the model *)

\* Largest number of member objects listed in one roster response, all
\* buckets together.
MaxListings == 3

----------------------------------------------------------------------------
(* JSON values and Python dict access *)

NoKeys == <<>>
JInt(n) == [t |-> "int", n |-> n, s |-> <<>>, a |-> <<>>, o |-> NoKeys, k |-> <<>>]
JBool(b) ==
    [t |-> "bool", n |-> IF b THEN 1 ELSE 0, s |-> <<>>, a |-> <<>>, o |-> NoKeys,
     k |-> <<>>]
JStr(s) == [t |-> "str", n |-> 0, s |-> s, a |-> <<>>, o |-> NoKeys, k |-> <<>>]
JNull == [t |-> "null", n |-> 0, s |-> <<>>, a |-> <<>>, o |-> NoKeys, k |-> <<>>]
JArr(a) == [t |-> "arr", n |-> 0, s |-> <<>>, a |-> a, o |-> NoKeys, k |-> <<>>]
\* A dict whose keys came in the order keys.
JDict(keys, f) == [t |-> "obj", n |-> 0, s |-> <<>>, a |-> <<>>, o |-> f, k |-> keys]

\* The keys the responses of the model use, with their code points ...
KeyCodes ==
    [ weekly |-> <<119, 101, 101, 107, 108, 121>>,
      monthly |-> <<109, 111, 110, 116, 104, 108, 121>>,
      all_time |-> <<97, 108, 108, 95, 116, 105, 109, 101>>,
      admin |-> <<97, 100, 109, 105, 110>>,
      username |-> <<117, 115, 101, 114, 110, 97, 109, 101>>,
      name |-> <<110, 97, 109, 101>>,
      location |-> <<108, 111, 99, 97, 116, 105, 111, 110>>,
      status |-> <<115, 116, 97, 116, 117, 115>>,
      followers |-> <<102, 111, 108, 108, 111, 119, 101, 114, 115>>,
      fide |-> <<102, 105, 100, 101>>,
      puzzle_rush |-> <<112, 117, 122, 122, 108, 101, 95, 114, 117, 115, 104>>,
      best |-> <<98, 101, 115, 116>>,
      score |-> <<115, 99, 111, 114, 101>>,
      chess_daily |-> <<99, 104, 101, 115, 115, 95, 100, 97, 105, 108, 121>>,
      chess_rapid |-> <<99, 104, 101, 115, 115, 95, 114, 97, 112, 105, 100>>,
      chess_blitz |-> <<99, 104, 101, 115, 115, 95, 98, 108, 105, 116, 122>>,
      chess_bullet |-> <<99, 104, 101, 115, 115, 95, 98, 117, 108, 108, 101, 116>>,
      chess960_daily |-> <<99, 104, 101, 115, 115, 57, 54, 48, 95, 100, 97, 105, 108, 121>>,
      tactics |-> <<116, 97, 99, 116, 105, 99, 115>>,
      lessons |-> <<108, 101, 115, 115, 111, 110, 115>>,
      last |-> <<108, 97, 115, 116>>,
      highest |-> <<104, 105, 103, 104, 101, 115, 116>>,
      rating |-> <<114, 97, 116, 105, 110, 103>> ]

\* ... and the order in which a response lists those it holds, unless it
\* is built by JDict.
KeyOrder ==
    <<"weekly", "monthly", "all_time", "admin", "username", "name",
      "location", "status", "followers", "fide", "puzzle_rush", "best",
      "score", "chess_daily", "chess_rapid", "chess_blitz", "chess_bullet",
      "chess960_daily", "tactics", "lessons", "last", "highest", "rating">>

JObj(f) ==
    LET Held(x) == x \in DOMAIN f
    IN JDict(SelectSeq(KeyOrder, Held), f)

\* The empty string "" the script stores for missing data.
Empty == JStr(<<>>)

\* Outcome of evaluating an expression: a value, or the exception it raises.
Ok(v) == [exc |-> "none", val |-> v]
Raise(e) == [exc |-> e, val |-> JNull]

\* v[k] for a string key k: a dict gives the value or KeyError; None, a
\* number, a string or a list is not subscriptable by a string key:
\* TypeError.
Subscript(v, k) ==
    IF v.t = "obj"
    THEN IF k \in DOMAIN v.o THEN Ok(v.o[k]) ELSE Raise("KeyError")
    ELSE Raise("TypeError")

\* v[path[1]][path[2]]...: left to right, the first exception propagates.
RECURSIVE GetPath(_, _)
GetPath(v, path) ==
    IF path = <<>> THEN Ok(v)
    ELSE LET r == Subscript(v, Head(path))
         IN IF r.exc = "none" THEN GetPath(r.val, Tail(path)) ELSE r

\* member[k] = v on a dict built by the script.
SetKey(m, k, v) == [x \in DOMAIN m \cup {k} |-> IF x = k THEN v ELSE m[x]]

\* Python's str "<": code point by code point, a proper prefix is smaller.
StrLess(a, b) ==
    LET differ == {i \in DOMAIN a \cap DOMAIN b : a[i] # b[i]}
        first == CHOOSE i \in differ : \A j \in differ : i <= j
    IN IF differ = {} THEN Len(a) < Len(b) ELSE a[first] < b[first]

SubSeqOrEmpty(s, a, b) == IF a > b THEN <<>> ELSE SubSeq(s, a, b)

\* a == b of Python on two decoded values: True and False are the numbers
\* 1 and 0, dicts are equal whatever the order of their keys.
RECURSIVE PyEq(_, _)
PyEq(a, b) ==
    CASE a.t \in {"int", "bool"} /\ b.t \in {"int", "bool"} -> a.n = b.n
      [] a.t = "str" /\ b.t = "str" -> a.s = b.s
      [] a.t = "null" /\ b.t = "null" -> TRUE
      [] a.t = "arr" /\ b.t = "arr" ->
            /\ Len(a.a) = Len(b.a)
            /\ \A i \in DOMAIN a.a : PyEq(a.a[i], b.a[i])
      [] a.t = "obj" /\ b.t = "obj" ->
            /\ DOMAIN a.o = DOMAIN b.o
            /\ \A x \in DOMAIN a.o : PyEq(a.o[x], b.o[x])
      [] OTHER -> FALSE

\* a < b of Python: numbers by value, strs by code point, lists by their
\* first unequal elements (or by length); any other pair raises TypeError.
RECURSIVE PyLt(_, _)
PyLt(a, b) ==
    CASE a.t \in {"int", "bool"} /\ b.t \in {"int", "bool"} ->
            [exc |-> "none", lt |-> a.n < b.n]
      [] a.t = "str" /\ b.t = "str" -> [exc |-> "none", lt |-> StrLess(a.s, b.s)]
      [] a.t = "arr" /\ b.t = "arr" ->
            LET differ == {i \in DOMAIN a.a \cap DOMAIN b.a : ~PyEq(a.a[i], b.a[i])}
                first == CHOOSE i \in differ : \A j \in differ : i <= j
            IN IF differ = {}
               THEN [exc |-> "none", lt |-> Len(a.a) < Len(b.a)]
               ELSE PyLt(a.a[first], b.a[first])
      [] OTHER -> [exc |-> "TypeError", lt |-> FALSE]

----------------------------------------------------------------------------
(* Configuration and tables of the script *)

\* "mensa-argentina"
CLUB_NAME == <<109, 101, 110, 115, 97, 45, 97, 114, 103, 101, 110, 116, 105, 110, 97>>
PLOT == TRUE

\* Keys of rating_lists in the order the dict literal lists them, which is
\* the order "for rating_type in rating_lists" visits them.
RatingTypeOrder ==
    <<"chess_daily", "chess_rapid", "chess_blitz", "chess_bullet",
      "chess960_daily", "tactics", "lessons">>

\* Mutant: every rating type reads "last".
rating_lists_last_only ==
    [g \in {RatingTypeOrder[k] : k \in DOMAIN RatingTypeOrder} |-> "last"]

rating_lists ==
    [g \in {RatingTypeOrder[k] : k \in DOMAIN RatingTypeOrder} |->
        IF g \in {"tactics", "lessons"} THEN "highest" ELSE "last"]

\* columns= of to_excel: the member keys written, left to right.
Columns ==
    <<"username", "name", "fide", "chess_daily", "chess_rapid", "chess_blitz",
      "chess_bullet", "chess960_daily", "tactics", "lessons", "puzzle_rush",
      "location", "status">>

\* rating_types of the chart.
rating_types ==
    <<"chess_daily", "chess_rapid", "chess_blitz", "chess_bullet",
      "chess960_daily", "tactics">>

\* The number plotted for a rating the member does not have.
FloorRating == 800

ErrorLine == "Error: Unable to access web site"

RosterUrl == [endpoint |-> "club/members", who |-> CLUB_NAME]
ProfileUrl(username) == [endpoint |-> "player", who |-> username]
StatsUrl(username) == [endpoint |-> "player/stats", who |-> username]

\* exit_status is the empty set while the script runs and {status} afterwards.
Running == {}
NotLoaded == <<>>
NoReport == [written |-> FALSE, rows |-> <<>>]
NoRatings == <<>>

----------------------------------------------------------------------------
(* Directory loader: lines 38-55 *)

\* club_members.values(): the values of a dict in the order of its keys;
\* any other value has no such method.
Values(v) ==
    IF v.t = "obj"
    THEN [seq |-> [i \in DOMAIN v.k |-> v.o[v.k[i]]], exc |-> "none"]
    ELSE [seq |-> <<>>, exc |-> "AttributeError"]

\* for x in v: the elements of a list, the characters of a str, the keys of
\* a dict; None and numbers are not iterable.
Iterate(v) ==
    CASE v.t = "arr" -> [seq |-> v.a, exc |-> "none"]
      [] v.t = "str" -> [seq |-> [i \in DOMAIN v.s |-> JStr(<<v.s[i]>>)], exc |-> "none"]
      [] v.t = "obj" -> [seq |-> [i \in DOMAIN v.k |-> JStr(KeyCodes[v.k[i]])],
                         exc |-> "none"]
      [] OTHER -> [seq |-> <<>>, exc |-> "TypeError"]

\* i["username"] of a member: the key of the sort, the uid of the chart.
Username(member) == member["username"]

\* Lines 48-50: the new_member holding the element's username, or the
\* exception element["username"] raises (KeyError from a dict without the
\* key, TypeError from an element that is no dict).
NewMember(element) ==
    LET r == Subscript(element, "username")
    IN [exc |-> r.exc, member |-> [x \in {"username"} |-> r.val]]

\* The list and the exception of a loop that has ended.
ListAndExc(s) == [list |-> s.list, exc |-> s.exc]

\* The least of a set of numbers.
Least(S) == CHOOSE i \in S : \A j \in S : i <= j

\* The loops of lines 44-52: the list as they leave it, and the exception
\* that ended them early (or "none").
\* The inner loop appends a record for each element before the first whose
\* username lookup raises.
AppendUntil(list, new, raising) ==
    IF raising = {}
    THEN [list |-> list \o [i \in DOMAIN new |-> new[i].member], exc |-> "none"]
    ELSE [list |-> list \o [i \in 1..(Least(raising) - 1) |-> new[i].member],
          exc |-> new[Least(raising)].exc]

AppendBucket(list, elements) ==
    AppendUntil(list, [i \in DOMAIN elements |-> NewMember(elements[i])],
                {i \in DOMAIN elements : NewMember(elements[i]).exc # "none"})

\* One turn of the outer loop: the type_list at s.at is iterated.
AppendElements(s, elements) ==
    IF elements.exc # "none" THEN [s EXCEPT !.exc = elements.exc]
    ELSE ListAndExc(AppendBucket(s.list, elements.seq)) @@ [at |-> s.at + 1]

AppendAllStep(s, type_lists) == AppendElements(s, Iterate(type_lists[s.at]))

\* The given number of turns, one after the other.
RECURSIVE AppendAllTurns(_, _, _)
AppendAllTurns(s, type_lists, turns) ==
    IF s.exc # "none" \/ s.at > Len(type_lists) \/ turns = 0 THEN s
    ELSE IF turns = 1 THEN AppendAllStep(s, type_lists)
    ELSE AppendAllTurns(AppendAllTurns(s, type_lists, turns \div 2), type_lists,
                        turns - (turns \div 2))

AppendAll(list, type_lists) ==
    ListAndExc(AppendAllTurns([list |-> list, exc |-> "none", at |-> 1], type_lists,
                              Len(type_lists)))

\* members.sort(key=lambda i: i["username"]) as CPython 3.11 sorts a list
\* (listobject.c).  The list is cut into runs from left to right: the run
\* that starts the rest is found (count_run), reversed if it is strictly
\* descending, and extended to minrun elements by binary insertion
\* (binarysort); runs are merged in the order powersort gives (found_new_run,
\* merge_force_collapse) by merge_lo and merge_hi, which gallop.  A list of
\* fewer than 64 elements is one run.  A comparison that raises ends the
\* sort and leaves the list as the steps before it arranged it.
\* Each step that compares hands the outcome of the comparison to the
\* operator that goes on from it.

\* x < y on the keys of two members.
Lt(x, y) == PyLt(Username(x), Username(y))

\* The first n elements of a list, and the elements after them.
Take(list, n) == SubSeqOrEmpty(list, 1, n)
Drop(list, n) == SubSeqOrEmpty(list, n + 1, Len(list))

\* The loop of count_run from element n + 1 on: the run ends before the
\* first element whose comparison with the one before it raises or is not
\* as the first comparison was.
RunEnds(list, n, descending) ==
    {i \in n..(Len(list) - 1) :
        LET c == Lt(list[i + 1], list[i])
        IN c.exc # "none" \/ c.lt # descending}

RunLengthTo(list, ends) ==
    IF ends = {} THEN [n |-> Len(list), exc |-> "none"]
    ELSE [n |-> Least(ends),
          exc |-> Lt(list[Least(ends) + 1], list[Least(ends)]).exc]

RunLength(list, n, descending) == RunLengthTo(list, RunEnds(list, n, descending))

RunFound(run, descending) ==
    [n |-> run.n, descending |-> descending, exc |-> run.exc]

CountRunFrom(list, c) ==
    IF c.exc # "none" THEN [n |-> 1, descending |-> FALSE, exc |-> c.exc]
    ELSE RunFound(RunLength(list, 2, c.lt), c.lt)

CountRun(list) ==
    IF Len(list) = 1 THEN [n |-> 1, descending |-> FALSE, exc |-> "none"]
    ELSE CountRunFrom(list, Lt(list[2], list[1]))

Reverse(list) == [i \in DOMAIN list |-> list[Len(list) + 1 - i]]

\* The place of pivot among list[l..r-1]: after every element it is not
\* smaller than.
RECURSIVE InsertionPoint(_, _, _, _)
InsertionPointAfter(list, pivot, l, r, p, c) ==
    IF c.exc # "none" THEN [at |-> l, exc |-> c.exc]
    ELSE IF c.lt THEN InsertionPoint(list, pivot, l, p)
    ELSE InsertionPoint(list, pivot, p + 1, r)

InsertionPoint(list, pivot, l, r) ==
    IF l >= r THEN [at |-> l, exc |-> "none"]
    ELSE InsertionPointAfter(list, pivot, l, r, l + ((r - l) \div 2),
                             Lt(pivot, list[l + ((r - l) \div 2)]))

\* One turn of the loop of binarysort: list[start] is put at its place
\* among the elements before it.
BinarySortInsert(s, place) ==
    IF place.exc # "none" THEN [s EXCEPT !.exc = place.exc]
    ELSE [list |-> SubSeqOrEmpty(s.list, 1, place.at - 1)
                     \o <<s.list[s.start]>>
                     \o SubSeqOrEmpty(s.list, place.at, s.start - 1)
                     \o SubSeqOrEmpty(s.list, s.start + 1, Len(s.list)),
          start |-> s.start + 1,
          exc |-> "none"]

BinarySortStep(s) ==
    IF s.exc # "none" \/ s.start > Len(s.list) THEN s
    ELSE BinarySortInsert(s, InsertionPoint(s.list, s.list[s.start], 1, s.start))

\* The given number of turns, one after the other.
RECURSIVE BinarySortTurns(_, _)
BinarySortTurns(s, turns) ==
    IF s.exc # "none" \/ s.start > Len(s.list) \/ turns = 0 THEN s
    ELSE IF turns = 1 THEN BinarySortStep(s)
    ELSE BinarySortTurns(BinarySortTurns(s, turns \div 2), turns - (turns \div 2))

BinarySort(list, start) ==
    ListAndExc(BinarySortTurns([list |-> list, start |-> start, exc |-> "none"],
                               Len(list)))

\* merge_compute_minrun: the length short runs are extended to.
MinRunWidth == 64
RECURSIVE MinRunFrom(_, _)
MinRunFrom(n, r) ==
    IF n >= MinRunWidth
    THEN MinRunFrom(n \div 2, IF n % 2 = 1 THEN 1 ELSE r)
    ELSE n + r
MergeComputeMinrun(n) == MinRunFrom(n, 0)

\* One comparison of a gallop: is a[i] (offsets from 0) at or past the place
\* of key?  gallop_right asks key < a[i], gallop_left asks a[i] < key and
\* the place is past every a[i] for which that holds.
Probe(key, a, i, right) ==
    LET c == IF right THEN Lt(key, a[i + 1]) ELSE Lt(a[i + 1], key)
    IN [exc |-> c.exc, past |-> (c.lt = right)]

\* The exponential search of gallop_left and gallop_right from a[hint],
\* leftward or rightward, by offsets 1, 3, 7, ...
RECURSIVE GallopOffsets(_, _, _, _, _, _, _)
GallopOffsetsAfter(key, a, hint, right, leftward, lastofs, ofs, c) ==
    IF c.exc # "none" THEN [lastofs |-> lastofs, ofs |-> ofs, exc |-> c.exc]
    ELSE IF c.past = leftward
    THEN GallopOffsets(key, a, hint, right, leftward, ofs, (2 * ofs) + 1)
    ELSE [lastofs |-> lastofs, ofs |-> ofs, exc |-> "none"]

GallopOffsets(key, a, hint, right, leftward, lastofs, ofs) ==
    IF ofs >= (IF leftward THEN hint + 1 ELSE Len(a) - hint)
    THEN [lastofs |-> lastofs, ofs |-> ofs, exc |-> "none"]
    ELSE GallopOffsetsAfter(key, a, hint, right, leftward, lastofs, ofs,
                            Probe(key, a, IF leftward THEN hint - ofs ELSE hint + ofs,
                                  right))

\* The binary search that ends a gallop.
RECURSIVE GallopSearch(_, _, _, _, _)
GallopSearchAfter(key, a, right, lastofs, ofs, m, c) ==
    IF c.exc # "none" THEN [k |-> 0, exc |-> c.exc]
    ELSE IF c.past THEN GallopSearch(key, a, right, lastofs, m)
    ELSE GallopSearch(key, a, right, m + 1, ofs)

GallopSearch(key, a, right, lastofs, ofs) ==
    IF lastofs >= ofs THEN [k |-> ofs, exc |-> "none"]
    ELSE GallopSearchAfter(key, a, right, lastofs, ofs,
                           lastofs + ((ofs - lastofs) \div 2),
                           Probe(key, a, lastofs + ((ofs - lastofs) \div 2), right))

\* The number of elements of the sorted run a that go before key: those
\* not greater than key (gallop_right) or those smaller (gallop_left).
GallopBetween(key, a, hint, right, leftward, g) ==
    LET maxofs == IF leftward THEN hint + 1 ELSE Len(a) - hint
        ofs == IF g.ofs > maxofs THEN maxofs ELSE g.ofs
        low == IF leftward THEN hint - ofs ELSE g.lastofs + hint
        high == IF leftward THEN hint - g.lastofs ELSE ofs + hint
    IN IF g.exc # "none" THEN [k |-> 0, exc |-> g.exc]
       ELSE GallopSearch(key, a, right, low + 1, high)

GallopFrom(key, a, hint, right, first) ==
    IF first.exc # "none" THEN [k |-> 0, exc |-> first.exc]
    ELSE GallopBetween(key, a, hint, right, first.past,
                       GallopOffsets(key, a, hint, right, first.past, 0, 1))

Gallop(key, a, hint, right) ==
    GallopFrom(key, a, hint, right, Probe(key, a, hint, right))

GallopLeft(key, a, hint) == Gallop(key, a, hint, FALSE)
GallopRight(key, a, hint) == Gallop(key, a, hint, TRUE)

\* Wins in a row that start and keep up galloping.
MIN_GALLOP == 7

\* A merge under way: the part of each run not yet merged (a, b), the part
\* already merged (out), the wins in a row of each run, min_gallop, and the
\* loop the merge is in: one element at a time, or galloping.
Merging(mode, a, b, out, acount, bcount, min_gallop) ==
    [mode |-> mode, a |-> a, b |-> b, out |-> out, acount |-> acount,
     bcount |-> bcount, min_gallop |-> min_gallop, exc |-> "none"]

\* A merge that has ended: out is the whole region as the merge leaves it,
\* exc the exception that ended it.
Merged(list, exc, min_gallop) ==
    [mode |-> "done", a |-> <<>>, b |-> <<>>, out |-> list, acount |-> 0,
     bcount |-> 0, min_gallop |-> min_gallop, exc |-> exc]

\* merge_lo: the runs a and b, a the shorter, merged from the left.  The
\* elements of a not yet merged are in the temp array and are copied back
\* behind out when the merge ends or fails.
\* One turn of the loop that moves one element at a time: c is b[0] < a[0].
MergeLoOneAfter(a, b, out, acount, bcount, min_gallop, c) ==
    IF c.exc # "none" THEN Merged(out \o a \o b, c.exc, min_gallop)
    ELSE IF c.lt
    THEN IF Len(b) = 1 THEN Merged(Append(out, b[1]) \o a, "none", min_gallop)
         ELSE Merging(IF bcount + 1 >= min_gallop THEN "gallop" ELSE "one",
                      a, Tail(b), Append(out, b[1]), 0, bcount + 1,
                      IF bcount + 1 >= min_gallop THEN min_gallop + 1 ELSE min_gallop)
    ELSE IF Len(a) = 2
         THEN Merged(Append(out, a[1]) \o b \o Tail(a), "none", min_gallop)
         ELSE Merging(IF acount + 1 >= min_gallop THEN "gallop" ELSE "one",
                      Tail(a), b, Append(out, a[1]), acount + 1, 0,
                      IF acount + 1 >= min_gallop THEN min_gallop + 1 ELSE min_gallop)

MergeLoOne(a, b, out, acount, bcount, min_gallop) ==
    MergeLoOneAfter(a, b, out, acount, bcount, min_gallop, Lt(b[1], a[1]))

\* One turn of the galloping loop.  kb is the place of a[0] in b, after the
\* elements of a before b[0], and b[0], have been moved.
MergeLoAfterB(a, b, out, min_gallop, acount, kb) ==
    IF kb.exc # "none" THEN Merged(out \o a \o b, kb.exc, min_gallop)
    ELSE IF kb.k = Len(b) THEN Merged(out \o b \o a, "none", min_gallop)
    ELSE IF Len(a) = 2
    THEN Merged(Append(out \o Take(b, kb.k), a[1]) \o Drop(b, kb.k) \o Tail(a),
                "none", min_gallop)
    ELSE Merging(IF acount >= MIN_GALLOP \/ kb.k >= MIN_GALLOP THEN "gallop" ELSE "one",
                 Tail(a), Drop(b, kb.k), Append(out \o Take(b, kb.k), a[1]), 0, 0,
                 IF acount >= MIN_GALLOP \/ kb.k >= MIN_GALLOP
                 THEN min_gallop ELSE min_gallop + 1)

\* ka is the place of b[0] in a.
MergeLoAfterA(a, b, out, min_gallop, ka) ==
    IF ka.exc # "none" THEN Merged(out \o a \o b, ka.exc, min_gallop)
    ELSE IF ka.k > 0 /\ Len(a) - ka.k <= 1
    THEN Merged(out \o Take(a, ka.k) \o b \o Drop(a, ka.k), "none", min_gallop)
    ELSE IF Len(b) = 1
    THEN Merged(out \o Take(a, ka.k) \o b \o Drop(a, ka.k), "none", min_gallop)
    ELSE MergeLoAfterB(Drop(a, ka.k), Tail(b), Append(out \o Take(a, ka.k), b[1]),
                       min_gallop, ka.k, GallopLeft(a[ka.k + 1], Tail(b), 0))

MergeLoGallop(a, b, out, before) ==
    MergeLoAfterA(a, b, out, IF before > 1 THEN before - 1 ELSE before,
                  GallopRight(b[1], a, 0))

MergeLoStep(s) ==
    CASE s.mode = "one" -> MergeLoOne(s.a, s.b, s.out, s.acount, s.bcount, s.min_gallop)
      [] s.mode = "gallop" -> MergeLoGallop(s.a, s.b, s.out, s.min_gallop)
      [] OTHER -> s

\* The given number of turns, one after the other.
RECURSIVE MergeLoTurns(_, _)
MergeLoTurns(s, turns) ==
    IF s.mode = "done" \/ turns = 0 THEN s
    ELSE IF turns = 1 THEN MergeLoStep(s)
    ELSE MergeLoTurns(MergeLoTurns(s, turns \div 2), turns - (turns \div 2))

MergeLo(a, b, min_gallop) ==
    IF Len(b) = 1 \/ Len(a) = 1 THEN Merged(b \o a, "none", min_gallop)
    ELSE MergeLoTurns(Merging("one", a, Tail(b), <<b[1]>>, 0, 0, min_gallop),
                      Len(a) + Len(b))

\* merge_hi: the runs a and b, b the shorter, merged from the right.  The
\* elements of b not yet merged are in the temp array and are copied back
\* before out when the merge ends or fails.
\* One turn of the loop that moves one element at a time: c is
\* b[last] < a[last].
MergeHiOneAfter(a, b, out, acount, bcount, min_gallop, c) ==
    IF c.exc # "none" THEN Merged(a \o b \o out, c.exc, min_gallop)
    ELSE IF c.lt
    THEN IF Len(a) = 1 THEN Merged(b \o a \o out, "none", min_gallop)
         ELSE Merging(IF acount + 1 >= min_gallop THEN "gallop" ELSE "one",
                      Take(a, Len(a) - 1), b, <<a[Len(a)]>> \o out, acount + 1, 0,
                      IF acount + 1 >= min_gallop THEN min_gallop + 1 ELSE min_gallop)
    ELSE IF Len(b) = 2
         THEN Merged(Take(b, 1) \o a \o <<b[2]>> \o out, "none", min_gallop)
         ELSE Merging(IF bcount + 1 >= min_gallop THEN "gallop" ELSE "one",
                      a, Take(b, Len(b) - 1), <<b[Len(b)]>> \o out, 0, bcount + 1,
                      IF bcount + 1 >= min_gallop THEN min_gallop + 1 ELSE min_gallop)

MergeHiOne(a, b, out, acount, bcount, min_gallop) ==
    MergeHiOneAfter(a, b, out, acount, bcount, min_gallop, Lt(b[Len(b)], a[Len(a)]))

\* One turn of the galloping loop.  kb is the place of a[last] in b, after
\* the elements of a behind b[last], and b[last], have been moved.
MergeHiAfterB(a, b, out, min_gallop, acount, kb) ==
    IF kb.exc # "none" THEN Merged(a \o b \o out, kb.exc, min_gallop)
    ELSE IF kb.k < Len(b) /\ kb.k <= 1
    THEN Merged(Take(b, kb.k) \o a \o Drop(b, kb.k) \o out, "none", min_gallop)
    ELSE IF Len(a) = 1
    THEN Merged(Take(b, kb.k) \o a \o Drop(b, kb.k) \o out, "none", min_gallop)
    ELSE Merging(IF acount >= MIN_GALLOP \/ Len(b) - kb.k >= MIN_GALLOP
                 THEN "gallop" ELSE "one",
                 Take(a, Len(a) - 1), Take(b, kb.k),
                 <<a[Len(a)]>> \o Drop(b, kb.k) \o out, 0, 0,
                 IF acount >= MIN_GALLOP \/ Len(b) - kb.k >= MIN_GALLOP
                 THEN min_gallop ELSE min_gallop + 1)

\* ka is the place of b[last] in a.
MergeHiAfterA(a, b, out, min_gallop, ka) ==
    IF ka.exc # "none" THEN Merged(a \o b \o out, ka.exc, min_gallop)
    ELSE IF ka.k = 0 THEN Merged(b \o a \o out, "none", min_gallop)
    ELSE IF Len(b) = 2
    THEN Merged(Take(b, 1) \o Take(a, ka.k) \o <<b[2]>> \o Drop(a, ka.k) \o out,
                "none", min_gallop)
    ELSE MergeHiAfterB(Take(a, ka.k), Take(b, Len(b) - 1),
                       <<b[Len(b)]>> \o Drop(a, ka.k) \o out,
                       min_gallop, Len(a) - ka.k,
                       GallopLeft(a[ka.k], Take(b, Len(b) - 1), Len(b) - 2))

MergeHiGallop(a, b, out, before) ==
    MergeHiAfterA(a, b, out, IF before > 1 THEN before - 1 ELSE before,
                  GallopRight(b[Len(b)], a, Len(a) - 1))

MergeHiStep(s) ==
    CASE s.mode = "one" -> MergeHiOne(s.a, s.b, s.out, s.acount, s.bcount, s.min_gallop)
      [] s.mode = "gallop" -> MergeHiGallop(s.a, s.b, s.out, s.min_gallop)
      [] OTHER -> s

\* The given number of turns, one after the other.
RECURSIVE MergeHiTurns(_, _)
MergeHiTurns(s, turns) ==
    IF s.mode = "done" \/ turns = 0 THEN s
    ELSE IF turns = 1 THEN MergeHiStep(s)
    ELSE MergeHiTurns(MergeHiTurns(s, turns \div 2), turns - (turns \div 2))

MergeHi(a, b, min_gallop) ==
    IF Len(a) = 1 \/ Len(b) = 1 THEN Merged(b \o a, "none", min_gallop)
    ELSE MergeHiTurns(Merging("one", Take(a, Len(a) - 1), b, <<a[Len(a)]>>, 0, 0,
                              min_gallop),
                      Len(a) + Len(b))

\* The state of a sort: the list, the runs found and not yet merged (first
\* index, length, power), min_gallop, and the exception that ended the sort.
MergeInit(list) ==
    [list |-> list, pending |-> <<>>, min_gallop |-> MIN_GALLOP, exc |-> "none"]

\* The elements of the pending run i.
RunOf(ms, i) ==
    SubSeq(ms.list, ms.pending[i].base, ms.pending[i].base + ms.pending[i].len - 1)

\* merge_at: the runs i and i+1 become one.  The elements of the first that
\* stay before the second (k of them), and those of the second that stay
\* after the first (all but nb), are left where they are; the rest is
\* merged with the shorter run in the temp array.
MergeAtPut(ms, base, head, merged, tail) ==
    [list |-> Take(ms.list, base - 1) \o head \o merged.out \o tail
                \o Drop(ms.list, base - 1 + Len(head) + Len(merged.out) + Len(tail)),
     pending |-> ms.pending,
     min_gallop |-> merged.min_gallop,
     exc |-> merged.exc]

MergeAtAfterLeft(ms, base, a, b, k, nb) ==
    IF nb.exc # "none" THEN [ms EXCEPT !.exc = nb.exc]
    ELSE IF nb.k = 0 THEN ms
    ELSE MergeAtPut(ms, base, Take(a, k),
                    IF Len(a) - k <= nb.k
                    THEN MergeLo(Drop(a, k), Take(b, nb.k), ms.min_gallop)
                    ELSE MergeHi(Drop(a, k), Take(b, nb.k), ms.min_gallop),
                    Drop(b, nb.k))

MergeAtAfterRight(ms, base, a, b, k) ==
    IF k.exc # "none" THEN [ms EXCEPT !.exc = k.exc]
    ELSE IF k.k = Len(a) THEN ms
    ELSE MergeAtAfterLeft(ms, base, a, b, k.k, GallopLeft(a[Len(a)], b, Len(b) - 1))

MergeAt(ms, i) ==
    MergeAtAfterRight([ms EXCEPT !.pending =
                          [j \in 1..(Len(ms.pending) - 1) |->
                              IF j < i THEN ms.pending[j]
                              ELSE IF j = i
                              THEN [ms.pending[i] EXCEPT
                                       !.len = @ + ms.pending[i + 1].len]
                              ELSE ms.pending[j + 1]]],
                      ms.pending[i].base, RunOf(ms, i), RunOf(ms, i + 1),
                      GallopRight(RunOf(ms, i + 1)[1], RunOf(ms, i), 0))

\* powerloop: the power of the boundary between the run of n1 elements at
\* index s1 (from 0) and the run of n2 elements after it, in a list of n.
RECURSIVE PowerFrom(_, _, _, _)
PowerFrom(a, b, n, result) ==
    IF a >= n THEN PowerFrom(2 * (a - n), 2 * (b - n), n, result + 1)
    ELSE IF b >= n THEN result
    ELSE PowerFrom(2 * a, 2 * b, n, result + 1)
Powerloop(s1, n1, n2, n) == PowerFrom((2 * s1) + n1, (2 * s1) + n1 + n1 + n2, n, 1)

\* found_new_run: before a run of n2 elements is pushed, the runs whose
\* boundary has a greater power than the new boundary are merged, and the
\* new boundary gets its power.
RECURSIVE MergeWhilePower(_, _)
MergeWhilePower(ms, power) ==
    IF ms.exc = "none" /\ Len(ms.pending) > 1
         /\ ms.pending[Len(ms.pending) - 1].power > power
    THEN MergeWhilePower(MergeAt(ms, Len(ms.pending) - 1), power)
    ELSE ms

SetPower(ms, power) ==
    IF ms.exc # "none" THEN ms
    ELSE [ms EXCEPT !.pending[Len(ms.pending)].power = power]

FoundNewRun(ms, n2) ==
    LET power == Powerloop(ms.pending[Len(ms.pending)].base - 1,
                           ms.pending[Len(ms.pending)].len, n2, Len(ms.list))
    IN IF ms.pending = <<>> THEN ms
       ELSE SetPower(MergeWhilePower(ms, power), power)

\* merge_force_collapse: the runs left at the end are merged into one.
RECURSIVE MergeForceCollapse(_)
MergeForceCollapse(ms) ==
    IF ms.exc # "none" \/ Len(ms.pending) <= 1 THEN ms
    ELSE MergeForceCollapse(
             MergeAt(ms, IF Len(ms.pending) > 2
                            /\ ms.pending[Len(ms.pending) - 2].len
                                 < ms.pending[Len(ms.pending)].len
                         THEN Len(ms.pending) - 2 ELSE Len(ms.pending) - 1))

\* The loop of list.sort over the list from index lo on: the next run is
\* found, made ascending, extended to minrun elements, and pushed.
RECURSIVE FindRuns(_, _, _)
FindRunsPushed(ms, lo, n, minrun) ==
    IF ms.exc # "none" THEN ms
    ELSE FindRuns([ms EXCEPT !.pending =
                      Append(@, [base |-> lo, len |-> n, power |-> 0])],
                  lo + n, minrun)

FindRunsExtended(found, lo, n, minrun) ==
    IF found.exc # "none" THEN found
    ELSE FindRunsPushed(FoundNewRun(found, n), lo, n, minrun)

\* The sort with the run at lo as extended says, and the rest behind it.
WithRun(ms, lo, extended, rest) ==
    [ms EXCEPT !.list = Take(ms.list, lo - 1) \o extended.list \o rest,
               !.exc = extended.exc]

FindRunsCounted(ms, lo, minrun, rest, run) ==
    LET ascending == IF run.descending
                     THEN Reverse(Take(rest, run.n)) \o Drop(rest, run.n)
                     ELSE rest
        force == IF Len(rest) <= minrun THEN Len(rest) ELSE minrun
        n == IF run.n < minrun THEN force ELSE run.n
    IN IF run.exc # "none" THEN [ms EXCEPT !.exc = run.exc]
       ELSE FindRunsExtended(WithRun(ms, lo,
                                     IF run.n < n
                                     THEN BinarySort(Take(ascending, n), run.n + 1)
                                     ELSE [list |-> Take(ascending, n),
                                           exc |-> "none"],
                                     Drop(ascending, n)),
                             lo, n, minrun)

FindRuns(ms, lo, minrun) ==
    IF ms.exc # "none" \/ lo > Len(ms.list) THEN ms
    ELSE FindRunsCounted(ms, lo, minrun, Drop(ms.list, lo - 1),
                         CountRun(Drop(ms.list, lo - 1)))

\* Mutant: the list is left in the order of the roster.
SortMembers_Unsorted(list) == [list |-> list, exc |-> "none"]

\* members.sort(key=lambda i: i["username"])
SortMembers(list) ==
    IF Len(list) < 2 THEN [list |-> list, exc |-> "none"]
    ELSE ListAndExc(MergeForceCollapse(
                        FindRuns(MergeInit(list), 1, MergeComputeMinrun(Len(list)))))

\* Lines 39-55: the sort runs only when the loops end without an exception.
LoadMembers(response) ==
    LET type_lists == Values(response)
        appended == AppendAll(<<>>, type_lists.seq)
    IN IF type_lists.exc # "none" THEN [list |-> <<>>, exc |-> type_lists.exc]
       ELSE IF appended.exc # "none" THEN appended
       ELSE SortMembers(appended.list)

----------------------------------------------------------------------------
(* Profile enricher: lines 77-82 *)

\* sub in s, for two strs.
IsSubstring(sub, s) ==
    \E i \in 0..(Len(s) - Len(sub)) : SubSeq(s, i + 1, i + Len(sub)) = sub

\* player_data[k] if k in player_data else "".  On a dict "in" tests the
\* keys.  On a str it tests for a substring and on a list for an equal
\* element, and the subscript by a str key then raises TypeError.  None and
\* numbers are not iterable: TypeError.
FieldOrEmpty(data, k) ==
    CASE data.t = "obj" -> Ok(IF k \in DOMAIN data.o THEN data.o[k] ELSE Empty)
      [] data.t = "str" -> IF IsSubstring(KeyCodes[k], data.s)
                           THEN Raise("TypeError") ELSE Ok(Empty)
      [] data.t = "arr" -> IF \E i \in DOMAIN data.a : PyEq(data.a[i], JStr(KeyCodes[k]))
                           THEN Raise("TypeError") ELSE Ok(Empty)
      [] OTHER -> Raise("TypeError")

\* The three assignments of lines 78-82 over the keys still to set; they
\* end at the first exception.
RECURSIVE ProfileLoop(_, _, _)
ProfileLoop(member, data, keys) ==
    IF keys = <<>> THEN [member |-> member, exc |-> "none"]
    ELSE LET r == FieldOrEmpty(data, Head(keys))
         IN IF r.exc # "none"
            THEN [member |-> member, exc |-> r.exc]
            ELSE ProfileLoop(SetKey(member, Head(keys), r.val), data, Tail(keys))

\* The body of the profile loop after json.loads: the member as the body
\* leaves it, and the exception that ended the body early (or "none").
EnrichProfile(member, data) ==
    ProfileLoop(member, data, <<"name", "location", "status">>)

----------------------------------------------------------------------------
(* Statistics enricher: lines 112-134 *)

\* Mutant: a fide of 0 is kept.
FideOf_KeepZero(data) == FieldOrEmpty(data, "fide")

\* Lines 113-115: the fide key or "", and "" again when the value == 0.
FideOf(data) ==
    LET r == FieldOrEmpty(data, "fide")
    IN IF r.exc = "none" /\ PyEq(r.val, JInt(0)) THEN Ok(Empty) ELSE r

\* A lookup inside try/except KeyError: KeyError stores "", any other
\* exception is not caught.
OrEmptyOnKeyError(r) == IF r.exc = "KeyError" THEN Ok(Empty) ELSE r

PuzzleRushOf(data) ==
    OrEmptyOnKeyError(GetPath(data, <<"puzzle_rush", "best", "score">>))

RatingOf(data, rating_type) ==
    OrEmptyOnKeyError(
        GetPath(data, <<rating_type, rating_lists[rating_type], "rating">>))

\* The loop of lines 126-134 over the rating types still to visit; it ends
\* at the first exception that is not caught.
RECURSIVE RatingLoop(_, _, _)
RatingLoop(member, data, types) ==
    IF types = <<>> THEN [member |-> member, exc |-> "none"]
    ELSE LET r == RatingOf(data, Head(types))
         IN IF r.exc # "none"
            THEN [member |-> member, exc |-> r.exc]
            ELSE RatingLoop(SetKey(member, Head(types), r.val), data, Tail(types))

\* The body of the stats loop after json.loads: the member as the body
\* leaves it, and the exception that ended the body early (or "none").
EnrichStats(member, data) ==
    LET f == FideOf(data)
        m1 == SetKey(member, "fide", f.val)
        p == PuzzleRushOf(data)
    IN IF f.exc # "none" THEN [member |-> member, exc |-> f.exc]
       ELSE IF p.exc # "none" THEN [member |-> m1, exc |-> p.exc]
       ELSE RatingLoop(SetKey(m1, "puzzle_rush", p.val), data, RatingTypeOrder)

----------------------------------------------------------------------------
(* Exporter and chart input: lines 138-175 and 202-209 *)

\* One spreadsheet row: the member's values in column order.
Row(member) == [c \in DOMAIN Columns |-> member[Columns[c]]]

Rows(list) == [r \in DOMAIN list |-> Row(list[r])]

\* int(str) reads: white space, an optional sign, decimal digits of any
\* script with single underscores between digits, white space.
\* The code points int() skips as white space.
IntSpaces ==
    {9, 10, 11, 12, 13, 32, 133, 160, 5760, 8232, 8233, 8239, 8287, 12288}
    \cup (8192..8202)

\* The digit zero of every decimal digit range of Unicode (category Nd, as
\* of the Unicode version of Python 3.11); the digits 1 to 9 follow it.
DigitZeros ==
    {48, 1632, 1776, 1984, 2406, 2534, 2662, 2790, 2918, 3046, 3174,
     3302, 3430, 3558, 3664, 3792, 3872, 4160, 4240, 6112, 6160, 6470,
     6608, 6784, 6800, 6992, 7088, 7232, 7248, 42528, 43216, 43264,
     43472, 43504, 43600, 44016, 65296, 66720, 68912, 69734, 69872,
     69942, 70096, 70384, 70736, 70864, 71248, 71360, 71472, 71904,
     72016, 72784, 73040, 73120, 92768, 92864, 93008, 120782, 120792,
     120802, 120812, 120822, 123200, 123632, 125264, 130032}

IsDigit(c) == \E z \in DigitZeros : c \in z..(z + 9)
DigitOf(c) == c - (CHOOSE z \in DigitZeros : c \in z..(z + 9))

\* The number the digits of d from place i on add to acc; underscores are
\* passed over.
RECURSIVE DigitsFrom(_, _, _)
DigitsFrom(d, i, acc) ==
    IF i > Len(d) THEN acc
    ELSE IF IsDigit(d[i]) THEN DigitsFrom(d, i + 1, 10 * acc + DigitOf(d[i]))
    ELSE DigitsFrom(d, i + 1, acc)

\* The digits of int(str) after the sign: at least one digit, an
\* underscore only between two digits, and no more than 4300 digits (the
\* limit of int() on a str, sys.get_int_max_str_digits(), leading zeros
\* counted).
DigitsValue(d) ==
    LET digits == {i \in DOMAIN d : IsDigit(d[i])}
        wellFormed ==
            /\ d # <<>>
            /\ \A i \in DOMAIN d :
                  \/ IsDigit(d[i])
                  \/ /\ d[i] = 95
                     /\ i > 1 /\ i < Len(d)
                     /\ IsDigit(d[i - 1]) /\ IsDigit(d[i + 1])
        nonzero == {i \in digits : DigitOf(d[i]) # 0}
        first == CHOOSE i \in nonzero : \A j \in 1..(i - 1) : j \notin nonzero
    IN IF ~wellFormed \/ Cardinality(digits) > 4300 THEN Raise("ValueError")
       ELSE IF nonzero = {} THEN Ok(JInt(0))
       ELSE Ok(JInt(DigitsFrom(d, first, 0)))

\* int(str): the str without the white space around it is an optional
\* sign and the digits.
IntOfStr(s) ==
    LET solid == {i \in DOMAIN s : s[i] \notin IntSpaces}
        first == CHOOSE i \in solid : \A j \in 1..(i - 1) : j \notin solid
        last == CHOOSE i \in solid : \A j \in (i + 1)..Len(s) : j \notin solid
        body == IF solid = {} THEN <<>> ELSE SubSeq(s, first, last)
        signed == body # <<>> /\ body[1] \in {43, 45}
        r == DigitsValue(IF signed THEN Tail(body) ELSE body)
    IN IF r.exc = "none" /\ signed /\ body[1] = 45 THEN Ok(JInt(0 - r.val.n)) ELSE r

\* int(x): an int is kept, True and False are 1 and 0, a str is parsed;
\* None, lists and dicts raise TypeError.
PyInt(v) ==
    CASE v.t = "int" -> Ok(v)
      [] v.t = "bool" -> Ok(JInt(v.n))
      [] v.t = "str" -> IntOfStr(v.s)
      [] OTHER -> Raise("TypeError")

\* Mutant: a missing rating is plotted as 0.
ChartEntry_ZeroFloor(v) == IF ~PyEq(v, Empty) THEN PyInt(v) ELSE Ok(JInt(0))

\* int(member[type]) if member[type] != "" else 800
ChartEntry(v) == IF ~PyEq(v, Empty) THEN PyInt(v) ELSE Ok(JInt(FloorRating))

\* The appends of lines 207-209 onto the member's list; they end at the first
\* exception.
RECURSIVE ChartLoop(_, _, _)
ChartLoop(list, member, types) ==
    IF types = <<>> THEN [list |-> list, exc |-> "none"]
    ELSE LET e == ChartEntry(member[Head(types)])
         IN IF e.exc # "none"
            THEN [list |-> list, exc |-> e.exc]
            ELSE ChartLoop(Append(list, e.val.n), member, Tail(types))

ChartVector(member) == ChartLoop(<<>>, member, rating_types)

----------------------------------------------------------------------------
(* Responses of the three endpoints *)

\* "Bob", "al", "alice": an upper-case name, and a name that is a prefix of
\* another.
Usernames == {<<66, 111, 98>>, <<97, 108>>, <<97, 108, 105, 99, 101>>}

\* A member object of the roster.
Element(username) == JObj([k \in {"username"} |-> JStr(username)])

\* The elements a bucket can list: a member object for each username, and
\* an object without the username key.
RosterElements == {Element(u) : u \in Usernames} \cup {JObj(NoKeys)}

\* The keys of a roster, in the order the API lists them.
RosterKeys == <<"weekly", "monthly", "all_time">>

\* Every roster of at most MaxListings member objects over the three
\* buckets: a sequence of listings cut into weekly, monthly and all_time.
ListedRosters ==
    { JDict(RosterKeys,
            [b \in {"weekly", "monthly", "all_time"} |->
               JArr(CASE b = "weekly" -> SubSeqOrEmpty(listing, 1, cut[1])
                      [] b = "monthly" -> SubSeqOrEmpty(listing, cut[1] + 1, cut[2])
                      [] OTHER -> SubSeqOrEmpty(listing, cut[2] + 1, Len(listing)))]) :
      <<listing, cut>> \in
        { lc \in (UNION { [1..n -> RosterElements] : n \in 0..MaxListings })
                 \X ((0..MaxListings) \X (0..MaxListings)) :
            lc[2][1] <= lc[2][2] /\ lc[2][2] <= Len(lc[1]) } }

\* A roster of the given keys, in that order.
Roster(keys, f) == JDict(keys, [b \in {keys[i] : i \in DOMAIN keys} |-> f[b]])

\* Bodies that are JSON of another shape: no dict; the keys in another
\* order before an element without username; a fourth key; a bucket that
\* is null, a str, a dict; usernames that are numbers or null.
OtherRosters ==
    LET Al == <<97, 108>>
        Named(v) == JObj([x \in {"username"} |-> v])
    IN { JNull,
         JArr(<<Element(Al)>>),
         Roster(<<"all_time", "monthly", "weekly">>,
                [all_time |-> JArr(<<Element(Al)>>), monthly |-> JArr(<<>>),
                 weekly |-> JArr(<<JObj(NoKeys)>>)]),
         Roster(<<"weekly", "monthly", "all_time", "admin">>,
                [weekly |-> JArr(<<>>), monthly |-> JArr(<<>>),
                 all_time |-> JArr(<<Element(Al)>>),
                 admin |-> JArr(<<Element(<<66, 111, 98>>)>>)]),
         Roster(<<"weekly", "monthly">>,
                [weekly |-> JArr(<<Element(Al)>>), monthly |-> JNull]),
         Roster(<<"weekly">>, [weekly |-> JStr(Al)]),
         Roster(<<"weekly">>, [weekly |-> Element(Al)]),
         Roster(<<"weekly">>, [weekly |-> JArr(<<Named(JInt(7)), Element(Al)>>)]),
         Roster(<<"weekly">>, [weekly |-> JArr(<<Element(Al), Named(JNull)>>)]),
         Roster(<<"weekly">>, [weekly |-> JArr(<<Named(JInt(5)), Named(JInt(3))>>)]),
         Roster(<<"weekly">>,
                [weekly |-> JArr(<<Named(JInt(1)), Named(JInt(2)), Named(JInt(0)),
                                   Named(JNull)>>)]),
         Roster(<<"weekly">>, [weekly |-> JArr(<<Named(JNull)>>)]) }

RosterResponses == ListedRosters \cup OtherRosters

\* A key a response does not hold is given the marker Absent while the
\* response is put together; MkObj leaves such keys out.
Absent == [t |-> "absent", n |-> 0, s |-> <<>>, a |-> <<>>, o |-> NoKeys, k |-> <<>>]
MkObj(f) == JObj([k \in {x \in DOMAIN f : f[x] # Absent} |-> f[k]])

\* Profile responses: every subset of the three optional fields, beside a
\* field the script does not read.
ProfileKeys == {"name", "location", "status"}
ProfileValue(k) ==
    CASE k = "name" -> JStr(<<65, 110, 110>>)
      [] k = "location" -> JStr(<<82, 111, 109, 101>>)
      [] k = "status" -> JStr(<<98, 97, 115, 105, 99>>)
      [] OTHER -> JInt(7)
ProfileObj(present) ==
    JObj([k \in present \cup {"followers"} |-> ProfileValue(k)])
\* Bodies that are JSON but no object: null, the strs "my name" and
\* "status", and the list ["location"].
NotAnObject ==
    {JNull, JStr(<<109, 121, 32, 110, 97, 109, 101>>),
     JStr(<<115, 116, 97, 116, 117, 115>>), JArr(<<JStr(KeyCodes["location"])>>)}
ProfileResponses ==
    {ProfileObj(present) : present \in SUBSET ProfileKeys} \cup NotAnObject

\* Stats responses.  A rating object {"rating": r}, or one without the key.
RatingValues == {JNull, JInt(1200), JInt(1500)}
SelectorShapes ==
    {Absent, JObj(NoKeys)} \cup {JObj([k \in {"rating"} |-> r]) : r \in RatingValues}
GameShapes ==
    {Absent, JNull} \cup
    {MkObj([k \in {"last", "highest"} |-> IF k = "last" THEN a ELSE b]) :
        a \in SelectorShapes, b \in SelectorShapes}
FullGame ==
    JObj([k \in {"last", "highest"} |->
            JObj([r \in {"rating"} |-> IF k = "last" THEN JInt(1200) ELSE JInt(1500)])])
FideShapes == {Absent, JNull, JInt(0), JBool(FALSE), JInt(2000)}
PuzzleShapes ==
    {Absent, JNull, JObj(NoKeys), JObj([k \in {"best"} |-> JObj(NoKeys)])} \cup
    {JObj([k \in {"best"} |-> JObj([x \in {"score"} |-> v])]) : v \in {JNull, JInt(25)}}

StatsKeys == {"fide", "puzzle_rush"} \cup DOMAIN rating_lists

StatsObj(f, p, g, shape, rest) ==
    MkObj([k \in StatsKeys |->
              CASE k = "fide" -> f
                [] k = "puzzle_rush" -> p
                [] k = g -> shape
                [] OTHER -> rest])

\* Every shape of fide beside every shape of puzzle_rush, the game types
\* all absent or all full; without fide, every shape of puzzle_rush
\* beside every shape of one game type, the other six sharing one shape;
\* and the bodies that are no object.
StatsResponses ==
    NotAnObject \cup
    { StatsObj(f, p, "chess_daily", rest, rest) :
        f \in FideShapes, p \in PuzzleShapes, rest \in {Absent, FullGame} }
    \cup
    { StatsObj(Absent, p, g, shape, rest) :
        p \in PuzzleShapes, g \in DOMAIN rating_lists, shape \in GameShapes,
        rest \in {Absent, FullGame} }

\* The responses the whole-run specification draws from: a profile without
\* a location, the stats of a member with some ratings, and the stats of a
\* member with a zero fide, the daily rating " 12 " given as a str and a
\* null tactics rating.
SomeRatings ==
    JObj([k \in {"tactics", "chess_blitz", "fide"} |->
            CASE k = "fide" -> JInt(2000)
              [] k = "tactics" -> FullGame
              [] OTHER -> JObj([x \in {"last"} |-> JObj([r \in {"rating"} |-> JInt(1200)])])])
OddRatings ==
    JObj([k \in {"chess_daily", "tactics", "fide"} |->
            CASE k = "fide" -> JInt(0)
              [] k = "tactics" -> JObj([x \in {"highest"} |-> JObj([r \in {"rating"} |-> JNull])])
              [] OTHER -> JObj([x \in {"last"} |->
                                  JObj([r \in {"rating"} |-> JStr(<<32, 49, 50, 32>>)])])])
RunProfileResponses == {ProfileObj({"name", "status"})}
RunStatsResponses == {SomeRatings, OddRatings}

----------------------------------------------------------------------------
(* The script, statement by statement *)

Init ==
    /\ pc = "start"
    /\ club_members = NotLoaded
    /\ members = <<>>
    /\ idx = 1
    /\ player_data = JNull
    /\ fetches = <<>>
    /\ outstanding = 0
    /\ printed = <<>>
    /\ report = NoReport
    /\ ratings = NoRatings
    /\ uncaught = "none"
    /\ exit_status = Running

\* The call of urlopen(url) starts: the script blocks in it.
Issue(url, waiting) ==
    /\ fetches' = Append(fetches, url)
    /\ outstanding' = outstanding + 1
    /\ pc' = waiting

\* except: print(...); exit(1)
FetchFails ==
    /\ outstanding' = outstanding - 1
    /\ printed' = Append(printed, ErrorLine)
    /\ exit_status' = {1}
    /\ pc' = "exit"
    /\ UNCHANGED <<club_members, members, idx, player_data, fetches, report,
                   ratings, uncaught>>

\* An exception no handler catches: the interpreter prints the traceback
\* and exits with status 1.
Dies(exception) ==
    /\ uncaught' = exception
    /\ exit_status' = {1}
    /\ pc' = "exit"

\* The exceptions of json.loads(source): the bytes are no UTF-8, UTF-16 or
\* UTF-32 text, the text is no JSON, a number has more digits than int()
\* takes, the nesting is deeper than the interpreter's stack.
BodyErrors == {"UnicodeDecodeError", "JSONDecodeError", "ValueError", "RecursionError"}

\* json.loads(source) is outside the try: nothing catches what it raises.
BodyMalformed ==
    /\ outstanding' = outstanding - 1
    /\ \E exception \in BodyErrors : Dies(exception)
    /\ UNCHANGED <<club_members, members, idx, player_data, fetches, printed,
                   report, ratings>>

\* Lines 23-30.
RosterIssue ==
    /\ pc = "start"
    /\ printed' = Append(printed, "Getting list of club members from web site...")
    /\ Issue(RosterUrl, "roster_wait")
    /\ UNCHANGED <<club_members, members, idx, player_data, report, ratings,
                   uncaught, exit_status>>

\* Lines 30, 36-62: the roster arrives and the member list is built.  A
\* print call with two arguments is recorded by its first.
RosterReturns(responses) ==
    /\ pc = "roster_wait"
    /\ \E response \in responses :
         LET loaded == LoadMembers(response)
         IN /\ club_members' = response
            /\ members' = loaded.list
            /\ IF loaded.exc = "none"
               THEN /\ printed' = printed \o
                         <<"Club Name: ", "Number of Club members: ",
                           "Getting Players information from web site...">>
                    /\ pc' = "profile_loop"
                    /\ UNCHANGED <<uncaught, exit_status>>
               ELSE /\ Dies(loaded.exc)
                    /\ UNCHANGED printed
    /\ outstanding' = outstanding - 1
    /\ idx' = 1
    /\ UNCHANGED <<player_data, fetches, report, ratings>>

RosterFails == pc = "roster_wait" /\ FetchFails

RosterMalformed == pc = "roster_wait" /\ BodyMalformed

\* The try of lines 67-74 and 101-108 up to the call: the url is put
\* together inside the try, and str + a username that is no str raises
\* TypeError, which the bare except takes for a failed fetch.
IssueFor(username, url, waiting) ==
    IF username.t = "str"
    THEN /\ Issue(url, waiting)
         /\ UNCHANGED <<printed, exit_status>>
    ELSE /\ printed' = Append(printed, ErrorLine)
         /\ exit_status' = {1}
         /\ pc' = "exit"
         /\ UNCHANGED <<fetches, outstanding>>

\* Lines 65-71.
ProfileIssue ==
    /\ pc = "profile_loop"
    /\ idx <= Len(members)
    /\ IssueFor(Username(members[idx]), ProfileUrl(Username(members[idx]).s),
                "profile_wait")
    /\ UNCHANGED <<club_members, members, idx, player_data, report, ratings,
                   uncaught>>

\* Lines 71, 76-82.
ProfileReturns(responses) ==
    /\ pc = "profile_wait"
    /\ \E response \in responses :
         LET done == EnrichProfile(members[idx], response)
         IN /\ player_data' = response
            /\ members' = [members EXCEPT ![idx] = done.member]
            /\ IF done.exc = "none"
               THEN /\ idx' = idx + 1
                    /\ pc' = "profile_loop"
                    /\ UNCHANGED <<uncaught, exit_status>>
               ELSE /\ Dies(done.exc)
                    /\ UNCHANGED idx
    /\ outstanding' = outstanding - 1
    /\ UNCHANGED <<club_members, fetches, printed, report, ratings>>

\* Mutant: the handler prints the message and goes on with an empty profile.
ProfileFails_Swallowed ==
    /\ pc = "profile_wait"
    /\ outstanding' = outstanding - 1
    /\ printed' = Append(printed, ErrorLine)
    /\ members' = [members EXCEPT ![idx] = EnrichProfile(@, JObj(NoKeys)).member]
    /\ idx' = idx + 1
    /\ pc' = "profile_loop"
    /\ UNCHANGED <<club_members, player_data, fetches, report, ratings, uncaught,
                   exit_status>>

ProfileFails == pc = "profile_wait" /\ FetchFails

ProfileMalformed == pc = "profile_wait" /\ BodyMalformed

\* Mutant: the stats stage starts after the first member's profile.
ProfileLoopEnds_Early ==
    /\ pc = "profile_loop"
    /\ idx > 1
    /\ printed' = Append(printed, "Getting Stats information from web site...")
    /\ idx' = 1
    /\ pc' = "stats_loop"
    /\ UNCHANGED <<club_members, members, player_data, fetches, outstanding,
                   report, ratings, uncaught, exit_status>>

\* The profile loop is exhausted: line 96.
ProfileLoopEnds ==
    /\ pc = "profile_loop"
    /\ idx > Len(members)
    /\ printed' = Append(printed, "Getting Stats information from web site...")
    /\ idx' = 1
    /\ pc' = "stats_loop"
    /\ UNCHANGED <<club_members, members, player_data, fetches, outstanding,
                   report, ratings, uncaught, exit_status>>

\* Lines 99-105.
StatsIssue ==
    /\ pc = "stats_loop"
    /\ idx <= Len(members)
    /\ IssueFor(Username(members[idx]), StatsUrl(Username(members[idx]).s),
                "stats_wait")
    /\ UNCHANGED <<club_members, members, idx, player_data, report, ratings,
                   uncaught>>

\* Lines 105, 110-134.
StatsReturns(responses) ==
    /\ pc = "stats_wait"
    /\ \E response \in responses :
         LET done == EnrichStats(members[idx], response)
         IN /\ player_data' = response
            /\ members' = [members EXCEPT ![idx] = done.member]
            /\ IF done.exc = "none"
               THEN /\ idx' = idx + 1
                    /\ pc' = "stats_loop"
                    /\ UNCHANGED <<uncaught, exit_status>>
               ELSE /\ Dies(done.exc)
                    /\ UNCHANGED idx
    /\ outstanding' = outstanding - 1
    /\ UNCHANGED <<club_members, fetches, printed, report, ratings>>

StatsFails == pc = "stats_wait" /\ FetchFails

StatsMalformed == pc = "stats_wait" /\ BodyMalformed

\* The stats loop is exhausted: line 136.
StatsLoopEnds ==
    /\ pc = "stats_loop"
    /\ idx > Len(members)
    /\ printed' = Append(printed, "Writing output file")
    /\ pc' = "export"
    /\ UNCHANGED <<club_members, members, idx, player_data, fetches, outstanding,
                   report, ratings, uncaught, exit_status>>

\* Lines 138-182 and 196.  DataFrame([]) has no columns, and to_excel raises
\* KeyError when none of columns= is a column of the frame.
WriteReport ==
    /\ pc = "export"
    /\ IF members = <<>>
       THEN /\ Dies("KeyError")
            /\ UNCHANGED <<report, printed, idx>>
       ELSE /\ report' = [written |-> TRUE, rows |-> Rows(members)]
            /\ IF PLOT = FALSE
               THEN /\ exit_status' = {0}
                    /\ pc' = "exit"
                    /\ UNCHANGED <<printed, idx>>
               ELSE /\ printed' = Append(printed, "Drawing chart...")
                    /\ idx' = 1
                    /\ pc' = "chart_style"
                    /\ UNCHANGED exit_status
            /\ UNCHANGED uncaught
    /\ UNCHANGED <<club_members, members, player_data, fetches, outstanding,
                   ratings>>

\* Line 199: the installed matplotlib knows the style "seaborn-dark".
StyleFound ==
    /\ pc = "chart_style"
    /\ pc' = "chart_build"
    /\ UNCHANGED <<club_members, members, idx, player_data, fetches, outstanding,
                   printed, report, ratings, uncaught, exit_status>>

\* Line 199: the installed matplotlib has no style of that name (it was
\* removed in matplotlib 3.8) and plt.style.use raises OSError.
StyleUnknown ==
    /\ pc = "chart_style"
    /\ Dies("OSError")
    /\ UNCHANGED <<club_members, members, idx, player_data, fetches, outstanding,
                   printed, report, ratings>>

\* ratings[uid] = value
SetRating(dict, uid, value) ==
    [u \in DOMAIN dict \cup {uid} |-> IF u = uid THEN value ELSE dict[u]]

\* Lines 202-209, one member.  A uid that is a list or a dict cannot be a
\* key of ratings: TypeError at line 206.
ChartBuild ==
    /\ pc = "chart_build"
    /\ idx <= Len(members)
    /\ LET uid == Username(members[idx])
           built == ChartVector(members[idx])
       IN IF uid.t \in {"arr", "obj"}
          THEN /\ Dies("TypeError")
               /\ UNCHANGED <<ratings, idx>>
          ELSE /\ ratings' = SetRating(ratings, uid, built.list)
               /\ IF built.exc = "none"
                  THEN /\ idx' = idx + 1
                       /\ UNCHANGED <<pc, uncaught, exit_status>>
                  ELSE /\ Dies(built.exc)
                       /\ UNCHANGED idx
    /\ UNCHANGED <<club_members, members, player_data, fetches, outstanding,
                   printed, report>>

\* Lines 212-222: the chart is drawn and shown, and the script ends.
ShowChart ==
    /\ pc = "chart_build"
    /\ idx > Len(members)
    /\ exit_status' = {0}
    /\ pc' = "exit"
    /\ UNCHANGED <<club_members, members, idx, player_data, fetches, outstanding,
                   printed, report, ratings, uncaught>>

Next ==
    \/ RosterIssue
    \/ RosterReturns(RosterResponses)
    \/ RosterFails
    \/ RosterMalformed
    \/ ProfileIssue
    \/ ProfileReturns(RunProfileResponses)
    \/ ProfileFails
    \/ ProfileMalformed
    \/ ProfileLoopEnds
    \/ StatsIssue
    \/ StatsReturns(RunStatsResponses)
    \/ StatsFails
    \/ StatsMalformed
    \/ StatsLoopEnds
    \/ WriteReport
    \/ StyleFound
    \/ StyleUnknown
    \/ ChartBuild
    \/ ShowChart

Spec == Init /\ [][Next]_vars

----------------------------------------------------------------------------
(* The two enrichers on one member, over every response shape *)

Alice == <<97, 108, 105, 99, 101>>

OneMemberRoster ==
    JDict(RosterKeys,
          [b \in {"weekly", "monthly", "all_time"} |->
              JArr(IF b = "weekly" THEN <<Element(Alice)>> ELSE <<>>)])

\* The script after the roster of one member has been loaded.
InitEnrich ==
    /\ pc = "profile_loop"
    /\ club_members = OneMemberRoster
    /\ members = LoadMembers(OneMemberRoster).list
    /\ idx = 1
    /\ player_data = JNull
    /\ fetches = <<RosterUrl>>
    /\ outstanding = 0
    /\ printed = <<"Getting list of club members from web site...",
                   "Club Name: ", "Number of Club members: ",
                   "Getting Players information from web site...">>
    /\ report = NoReport
    /\ ratings = NoRatings
    /\ uncaught = "none"
    /\ exit_status = Running

NextEnrich ==
    \/ ProfileIssue
    \/ ProfileReturns(ProfileResponses)
    \/ ProfileFails
    \/ ProfileMalformed
    \/ ProfileLoopEnds
    \/ StatsIssue
    \/ StatsReturns(StatsResponses)
    \/ StatsFails
    \/ StatsMalformed

SpecEnrich == InitEnrich /\ [][NextEnrich]_vars

----------------------------------------------------------------------------
(* Vocabulary of the properties *)

IsObj(v) == v.t = "obj"

Range(seq) == {seq[k] : k \in DOMAIN seq}

\* The roster has been parsed and the member list built and sorted: line 58
\* has printed.
Loaded == "Club Name: " \in Range(printed)

\* The roster is an object of lists of member objects whose usernames are
\* strs.
ListsMembers ==
    /\ IsObj(club_members)
    /\ \A b \in DOMAIN club_members.o :
          /\ club_members.o[b].t = "arr"
          /\ \A i \in DOMAIN club_members.o[b].a :
                LET e == club_members.o[b].a[i]
                IN IsObj(e) /\ "username" \in DOMAIN e.o /\ e.o["username"].t = "str"

\* The places of the roster that list a member, and the username at each.
Listings ==
    UNION { {<<b, i>> : i \in DOMAIN club_members.o[b].a} : b \in DOMAIN club_members.o }
ListedAt(l) == club_members.o[l[1]].a[l[2]].o["username"].s
ListedUsernames == {ListedAt(l) : l \in Listings}
TimesListed(u) == Cardinality({l \in Listings : ListedAt(l) = u})

MemberNames == [i \in DOMAIN members |-> Username(members[i]).s]
RowNames == [i \in DOMAIN report.rows |-> report.rows[i][1].s]

Ascending(names) ==
    \A i, j \in DOMAIN names : i < j => ~StrLess(names[j], names[i])

FetchFailed == ErrorLine \in Range(printed) \/ uncaught \in BodyErrors

ChartStarted == "Drawing chart..." \in Range(printed)

ProfileKeysSet(member) == {"name", "location", "status"} \subseteq DOMAIN member
StatsKeysSet(member) ==
    {"fide", "puzzle_rush", "chess_daily", "chess_rapid", "chess_blitz",
     "chess_bullet", "chess960_daily", "tactics", "lessons"} \subseteq DOMAIN member

FetchesOf(endpoint) == {p \in DOMAIN fetches : fetches[p].endpoint = endpoint}

----------------------------------------------------------------------------
(* Properties of the whole run *)

\* C1: once the roster is loaded, the records are one per distinct listed
\* username: their usernames are the union of the buckets' usernames and no
\* two records (and no two exported rows) hold the same username.
C1_OneRecordPerUsername ==
    (Loaded /\ ListsMembers) =>
        /\ Range(MemberNames) = ListedUsernames
        /\ \A i, j \in DOMAIN members : MemberNames[i] = MemberNames[j] => i = j
        /\ report.written =>
             /\ Range(RowNames) = ListedUsernames
             /\ \A i, j \in DOMAIN RowNames : RowNames[i] = RowNames[j] => i = j

\* C2: whatever order the buckets list the members in, from the end of the
\* directory loader on the records are in ascending str order of username
\* and hold the listed usernames (each as often as it is listed), through
\* both enrichers, and the exported rows carry the same usernames in the
\* same order.
C2_AscendingUsernames ==
    (Loaded /\ ListsMembers) =>
        /\ Ascending(MemberNames)
        /\ \A u \in Usernames :
             Cardinality({i \in DOMAIN members : MemberNames[i] = u}) = TimesListed(u)
        /\ report.written => RowNames = MemberNames

\* A written report of three members whose roster lists a larger username
\* before a smaller one in the same bucket.
C2_Witness ==
    /\ report.written
    /\ Len(members) = 3
    /\ \E b \in DOMAIN club_members.o :
         /\ Len(club_members.o[b].a) >= 2
         /\ StrLess(ListedAt(<<b, 2>>), ListedAt(<<b, 1>>))

\* C3: a step in which a fetch fails ends the run at once with a non-zero
\* exit status and nothing outstanding; after a failed fetch no fetch is
\* issued, no report is written and the chart step does not run; and a
\* report is written only when no fetch has failed.
C3_FetchFailureAborts ==
    [][ /\ FetchFailed' =>
            /\ pc' = "exit"
            /\ exit_status' # Running
            /\ 0 \notin exit_status'
            /\ outstanding' = 0
            /\ ~report'.written
            /\ ~ChartStarted'
            /\ ratings' = NoRatings
        /\ FetchFailed => UNCHANGED <<fetches, report, ratings, members, pc>>
        /\ (FetchFailed' /\ ~FetchFailed) => UNCHANGED <<fetches, members>>
        /\ report'.written => ~FetchFailed' ]_vars

\* The run ended by the failure of the third member's stats fetch.
C3_Witness ==
    /\ ErrorLine \in Range(printed)
    /\ pc = "exit"
    /\ Len(members) = 3
    /\ fetches[Len(fetches)] = StatsUrl(MemberNames[3])

\* C4: the fetches are issued one at a time in the order roster, profile of
\* each member in list order, stats of each member in list order; a profile
\* fetch is issued only once the list is loaded and sorted and the profiles of the
\* members before it are merged; a stats fetch only once every member has
\* its profile and the members before it have their stats; the report is
\* written only once every member has its stats.
C4_StageBarriers ==
    LET N == Len(members)
    IN /\ \A p \in DOMAIN fetches :
            /\ p = 1 => fetches[p] = RosterUrl
            /\ p > 1 =>
                 /\ Loaded
                 /\ Ascending(MemberNames)
                 /\ p <= 2 * N + 1
                 /\ p <= N + 1 =>
                      /\ fetches[p] = ProfileUrl(MemberNames[p - 1])
                      /\ \A i \in 1..(p - 2) : ProfileKeysSet(members[i])
                 /\ p > N + 1 =>
                      /\ fetches[p] = StatsUrl(MemberNames[p - N - 1])
                      /\ \A i \in 1..N : ProfileKeysSet(members[i])
                      /\ \A i \in 1..(p - N - 2) : StatsKeysSet(members[i])
       /\ report.written =>
            /\ Len(fetches) = 2 * N + 1
            /\ \A i \in 1..N : ProfileKeysSet(members[i]) /\ StatsKeysSet(members[i])

\* A written report of three members.
C4_Witness == report.written /\ Len(members) = 3 /\ Len(fetches) = 7

\* C9: the list built for a member has six entries, in the order
\* chess_daily, chess_rapid, chess_blitz, chess_bullet, chess960_daily,
\* tactics: 800 where the record holds "", the record's rating where the
\* record holds an integer; and building the lists leaves every record as
\* it was exported.
C9_ChartVectors ==
    (pc = "chart_build" /\ idx > 1) =>
        LET m == members[idx - 1]
            built == ratings[Username(m)]
            order == <<"chess_daily", "chess_rapid", "chess_blitz",
                       "chess_bullet", "chess960_daily", "tactics">>
        IN /\ Len(built) = 6
           /\ \A p \in 1..6 :
                /\ m[order[p]] = Empty => built[p] = 800
                /\ m[order[p]].t = "int" => built[p] = m[order[p]].n
           /\ Rows(members) = report.rows

\* The lists of two members are built, the last from a record with a
\* missing rating and a tactics rating of 1500.
C9_Witness ==
    /\ pc = "chart_build"
    /\ idx = 3
    /\ members[2]["chess_daily"] = Empty
    /\ ratings[Username(members[2])] = <<800, 800, 1200, 800, 800, 1500>>

\* C10: when the report is written the script has issued 1 + N + N fetches
\* for the N distinct usernames of the roster: the roster fetch, one profile
\* fetch and one stats fetch per username, never two at a time.
C10_FetchCount ==
    /\ outstanding <= 1
    /\ (report.written /\ ListsMembers) =>
         LET N == Cardinality(ListedUsernames)
         IN /\ Len(fetches) = 1 + N + N
            /\ Cardinality(FetchesOf("club/members")) = 1
            /\ \A u \in ListedUsernames :
                 /\ Cardinality({p \in FetchesOf("player") : fetches[p].who = u}) = 1
                 /\ Cardinality({p \in FetchesOf("player/stats") : fetches[p].who = u}) = 1

----------------------------------------------------------------------------
(* Properties of the enrichers, one member *)

\* The last request has been answered with a body that json.loads decoded:
\* the fetch did not fail (no error line) and the body was not malformed.
\* player_data is that body from then on.
Decoded(endpoint) ==
    /\ outstanding = 0
    /\ fetches # <<>>
    /\ fetches[Len(fetches)].endpoint = endpoint
    /\ ErrorLine \notin Range(printed)
    /\ uncaught \notin BodyErrors
ProfileAnswered == Decoded("player")
StatsAnswered == Decoded("player/stats")

\* The stats response has been merged without an exception.
StatsMerged == pc = "stats_loop" /\ idx = 2

\* The path a.b.c of a response: every key is there ...
Complete(data, a, b, c) ==
    /\ a \in DOMAIN data.o /\ IsObj(data.o[a])
    /\ b \in DOMAIN data.o[a].o /\ IsObj(data.o[a].o[b])
    /\ c \in DOMAIN data.o[a].o[b].o
\* ... or the first key that is not there is missing from an object.
Missing(data, a, b, c) ==
    \/ IsObj(data) /\ a \notin DOMAIN data.o
    \/ /\ a \in DOMAIN data.o /\ IsObj(data.o[a])
       /\ \/ b \notin DOMAIN data.o[a].o
          \/ /\ b \in DOMAIN data.o[a].o /\ IsObj(data.o[a].o[b])
             /\ c \notin DOMAIN data.o[a].o[b].o
Leaf(data, a, b, c) == data.o[a].o[b].o[c]

\* The selector each rating field is documented to read.
Selector ==
    [chess_daily |-> "last", chess_rapid |-> "last", chess_blitz |-> "last",
     chess_bullet |-> "last", chess960_daily |-> "last", tactics |-> "highest",
     lessons |-> "highest"]
OtherSelector(g) == IF Selector[g] = "last" THEN "highest" ELSE "last"

\* The attribute paths of a stats response, by member key.
PathOf ==
    [g \in DOMAIN Selector |-> <<g, Selector[g], "rating">>] @@
    [k \in {"puzzle_rush"} |-> <<"puzzle_rush", "best", "score">>]

\* The attributes of a decoded stats response, as the merge is to leave
\* them: the value at the end of each complete path, "" for every other.
PathsMerged ==
    /\ StatsMerged
    /\ uncaught = "none"
    /\ \A k \in DOMAIN PathOf :
          members[1][k] =
              IF Complete(player_data, PathOf[k][1], PathOf[k][2], PathOf[k][3])
              THEN Leaf(player_data, PathOf[k][1], PathOf[k][2], PathOf[k][3])
              ELSE Empty
    /\ \A k \in {"name", "location", "status"} : k \in DOMAIN members[1]

\* C5: a profile response lacking any of name, location, status, and a
\* stats response in which any path stops short at any segment, are merged
\* without ending the run: each attribute whose key or path is incomplete
\* is "", and each attribute whose key or path is complete holds the value
\* of the response.
C5_MissingDataAbsorbed ==
    /\ (ProfileAnswered /\ IsObj(player_data)) =>
         /\ uncaught = "none"
         /\ \A k \in {"name", "location", "status"} :
               /\ k \in DOMAIN members[1]
               /\ members[1][k] =
                    IF k \in DOMAIN player_data.o THEN player_data.o[k] ELSE Empty
    /\ (StatsAnswered /\ IsObj(player_data)) => PathsMerged

\* The part of C5 the code keeps: when every path of the stats response is
\* complete or stops at a key missing from an object, the merge is as C5
\* says. A path that stops at a value that is not an object (null, a
\* number, a string, a list) is what C5_MissingDataAbsorbed fails on.
MissingKeysAbsorbed ==
    ( /\ StatsAnswered
      /\ IsObj(player_data)
      /\ \A k \in DOMAIN PathOf :
            \/ Complete(player_data, PathOf[k][1], PathOf[k][2], PathOf[k][3])
            \/ Missing(player_data, PathOf[k][1], PathOf[k][2], PathOf[k][3]) )
    => PathsMerged

\* Merged stats with puzzle_rush present but best absent, a game type
\* without its selector, and a sibling rating taken from the response.
MissingKeysMerged ==
    /\ StatsMerged
    /\ "puzzle_rush" \in DOMAIN player_data.o
    /\ IsObj(player_data.o["puzzle_rush"])
    /\ "best" \notin DOMAIN player_data.o["puzzle_rush"].o
    /\ members[1]["puzzle_rush"] = Empty
    /\ members[1]["chess_daily"] = Empty
    /\ "chess_daily" \in DOMAIN player_data.o
    /\ members[1]["tactics"] = JInt(1500)
    /\ members[1]["location"] = Empty
    /\ members[1]["name"] # Empty

\* The stats response {"puzzle_rush": null} has ended the run with an
\* uncaught TypeError.
NullParentAborts ==
    /\ StatsAnswered
    /\ IsObj(player_data)
    /\ "puzzle_rush" \in DOMAIN player_data.o
    /\ player_data.o["puzzle_rush"] = JNull
    /\ uncaught = "TypeError"
    /\ pc = "exit"

\* C6: the fide attribute is "" when the response has no fide key and when
\* its fide is 0, and is the response's fide when that is a non-zero number.
C6_FideNormalised ==
    (StatsAnswered /\ IsObj(player_data)) =>
        LET d == player_data.o
        IN /\ "fide" \notin DOMAIN d => members[1]["fide"] = Empty
           /\ ("fide" \in DOMAIN d /\ d["fide"] = JInt(0)) => members[1]["fide"] = Empty
           /\ ("fide" \in DOMAIN d /\ d["fide"].t = "int" /\ d["fide"].n # 0)
                => members[1]["fide"] = d["fide"]

\* A response whose fide is 0 has been merged.
C6_Witness ==
    /\ StatsMerged
    /\ "fide" \in DOMAIN player_data.o
    /\ player_data.o["fide"] = JInt(0)
    /\ members[1]["fide"] = Empty

\* The member as the profile enricher left it.
BeforeStats(member) == [k \in {"username", "name", "location", "status"} |-> member[k]]

\* The response with the value under one selector of one game type replaced.
WithSelector(data, g, selector, v) ==
    JObj([data.o EXCEPT ![g] = JObj([@.o EXCEPT ![selector] = v])])

\* C7: each rating field holds the rating under its own selector ("last"
\* for the five chess fields, "highest" for tactics and lessons), and
\* replacing the value under the other selector of any game type by any
\* other value leaves the whole outcome of the merge the same.
C7_ConfiguredSelectorOnly ==
    StatsAnswered =>
        \A g \in DOMAIN Selector :
            /\ (StatsMerged /\ Complete(player_data, g, Selector[g], "rating"))
                 => members[1][g] = Leaf(player_data, g, Selector[g], "rating")
            /\ ( /\ g \in DOMAIN player_data.o
                 /\ IsObj(player_data.o[g])
                 /\ OtherSelector(g) \in DOMAIN player_data.o[g].o )
               => \A v \in (SelectorShapes \ {Absent}) \cup {JNull, JInt(900)} :
                     EnrichStats(BeforeStats(members[1]),
                                 WithSelector(player_data, g, OtherSelector(g), v))
                       = [member |-> members[1], exc |-> uncaught]

\* tactics with highest 1500 and last 1200 has been merged as 1500.
C7_Witness ==
    /\ StatsMerged
    /\ Complete(player_data, "tactics", "highest", "rating")
    /\ Complete(player_data, "tactics", "last", "rating")
    /\ Leaf(player_data, "tactics", "highest", "rating") = JInt(1500)
    /\ Leaf(player_data, "tactics", "last", "rating") = JInt(1200)
    /\ members[1]["tactics"] = JInt(1500)

\* C8: once the stats of a record are merged, fide, puzzle_rush and the
\* seven rating fields are all set, each to a number or to "".
C8_NumberOrEmpty ==
    StatsMerged =>
        \A k \in {"fide", "puzzle_rush"} \cup DOMAIN Selector :
            /\ k \in DOMAIN members[1]
            /\ members[1][k].t = "int" \/ members[1][k] = Empty

====
